---------------------------- MODULE Spec2Model ----------------------------
(***************************************************************************)
(* Patient Management System API (src/main.py): a FastAPI service keeping  *)
(* patient records in patients.json.  Every route loads the whole file,    *)
(* works on the loaded dict and, for mutations, dumps the whole dict back. *)
(*                                                                         *)
(* Numbers: height is kept in hundredths of a metre, weight in kilograms   *)
(* and bmi in hundredths, so that round(weight / height ** 2, 2) is an     *)
(* integer computation.  A JSON object is a function from field names to   *)
(* values; the file is the ordered list of its (key, value) members, as a  *)
(* Python dict keeps insertion order through json.load / json.dump.        *)
(***************************************************************************)
EXTENDS Integers, Sequences, FiniteSets, TLC

\* ------------------------------------------------------------------ bounds
\* number of distinct patient ids the callers use
NumIds == 2
\* largest number of records in a store handed to /sort
MaxRecords == 3
\* largest weight, in kilograms, of a patient whose verdict is computed
MaxWeight == 120

IdNames == <<"P001", "P002", "P003", "P004">>
PatientIds == {IdNames[i] : i \in 1..NumIds}

\* ------------------------------------------------------------ field values
StoredFields == {"name", "city", "age", "gender", "height", "weight"}
PatientFields == {"id"} \cup StoredFields
DerivedFields == {"bmi", "verdict"}

\* values the callers send that pass validation
GoodValues(f) ==
    CASE f = "id"     -> PatientIds
      [] f = "name"   -> {"Ann", "Bob"}
      [] f = "city"   -> {"Pune"}
      [] f = "age"    -> {30}
      [] f = "gender" -> {"male"}
      [] f = "height" -> {200}
      [] f = "weight" -> {80, 100}

\* values the callers send that a constraint rejects
BadValues(f) ==
    CASE f = "age"    -> {0, 120}
      [] f = "gender" -> {"unknown"}
      [] f = "height" -> {0}
      [] f = "weight" -> {0}
      [] OTHER        -> {}

Restrict(fn, S) == [k \in (DOMAIN fn) \cap S |-> fn[k]]

\* ------------------------------------------------------------------ models
\* A request body: val holds the members with a value, null names the
\* members sent as JSON null.
Body(val, null) == [val |-> val, null |-> null]

Genders == {"male", "female", "others"}

\* variant: the age constraint without lt=120
PatientFieldOk_NoUpper(f, v) ==
    CASE f = "age"    -> v > 0
      [] f = "gender" -> v \in Genders
      [] f = "height" -> v > 0
      [] f = "weight" -> v > 0
      [] OTHER        -> TRUE

\* Field constraints of class Patient (gt / lt / Literal).
PatientFieldOk(f, v) ==
    CASE f = "age"    -> v > 0 /\ v < 120
      [] f = "gender" -> v \in Genders
      [] f = "height" -> v > 0
      [] f = "weight" -> v > 0
      [] OTHER        -> TRUE

\* variant: name and city declared Optional[str] = None
PatientValid_OptionalNames(b) ==
    /\ PatientFields \ {"name", "city"} \subseteq DOMAIN b.val
    /\ b.null \cap (PatientFields \ {"name", "city"}) = {}
    /\ \A f \in PatientFields \cap DOMAIN b.val : PatientFieldOk(f, b.val[f])

\* Patient(**kw) succeeds: every declared field is present and not None and
\* passes its constraint; members that are no field of the model are ignored.
PatientValid(b) ==
    /\ PatientFields \subseteq DOMAIN b.val
    /\ b.null \cap PatientFields = {}
    /\ \A f \in PatientFields : PatientFieldOk(f, b.val[f])

\* Field constraints of class PatientUpdate: age has gt=0 only.
PatientUpdateFieldOk(f, v) ==
    CASE f = "age"    -> v > 0
      [] f = "gender" -> v \in Genders
      [] f = "height" -> v > 0
      [] f = "weight" -> v > 0
      [] OTHER        -> TRUE

\* PatientUpdate(**kw) succeeds: every field is Optional, None is accepted.
PatientUpdateValid(b) ==
    \A f \in (DOMAIN b.val) \cap StoredFields : PatientUpdateFieldOk(f, b.val[f])

\* round(x, 2) of the quotient num / den, in hundredths (ties to even)
RoundDiv(num, den) ==
    LET q == num \div den
        r == num % den
    IN  IF 2 * r > den THEN q + 1
        ELSE IF 2 * r < den THEN q
        ELSE IF q % 2 = 0 THEN q ELSE q + 1

\* Patient.bmi: round(weight / height ** 2, 2)
bmi(height, weight) == RoundDiv(weight * 1000000, height * height)

\* variant: the upper limits of the classes closed
verdict_closed(b) ==
    IF b <= 1850 THEN "Underweight"
    ELSE IF b <= 2500 THEN "Normal"
    ELSE IF b <= 3000 THEN "Overweight"
    ELSE "Obese"

\* Patient.verdict
verdict(b) ==
    IF b < 1850 THEN "Underweight"
    ELSE IF b < 2500 THEN "Normal"
    ELSE IF b < 3000 THEN "Overweight"
    ELSE "Obese"

\* variant: members that are no declared field kept (extra='allow')
PatientObj_Extra(b) == b.val

\* The Patient object built from a valid body: its declared fields.
PatientObj(b) == Restrict(b.val, PatientFields)

\* variant: exclude not applied
model_dump_unfiltered(p, exclude) ==
    p @@ [k \in DerivedFields |->
            IF k = "bmi" THEN bmi(p["height"], p["weight"])
            ELSE verdict(bmi(p["height"], p["weight"]))]

\* variant: a dump of the declared fields only
model_dump_declared(p, exclude) == Restrict(p, (DOMAIN p) \ exclude)

\* Patient.model_dump(exclude=...): declared and computed fields, less the
\* excluded names.
model_dump(p, exclude) ==
    LET all == p @@ [k \in DerivedFields |->
                        IF k = "bmi" THEN bmi(p["height"], p["weight"])
                        ELSE verdict(bmi(p["height"], p["weight"]))]
    IN  Restrict(all, (DOMAIN all) \ exclude)

\* ------------------------------------------------------------- the dict
Keys(data) == {data[i].key : i \in DOMAIN data}
Index(data, k) == CHOOSE i \in DOMAIN data : data[i].key = k
GetItem(data, k) == data[Index(data, k)].value
\* variant: an existing key written at the head of the dict
SetItem_Front(data, k, v) ==
    IF k \in Keys(data)
    THEN [data EXCEPT ![1].value = v]
    ELSE Append(data, [key |-> k, value |-> v])
SetItem(data, k, v) ==
    IF k \in Keys(data)
    THEN [data EXCEPT ![Index(data, k)].value = v]
    ELSE Append(data, [key |-> k, value |-> v])
\* variant: the filter inverted
DelItem_Inverted(data, k) == SelectSeq(data, LAMBDA e : e.key = k)
DelItem(data, k) == SelectSeq(data, LAMBDA e : e.key # k)
Values(data) == [i \in DOMAIN data |-> data[i].value]

\* ------------------------------------------------------------------ state
VARIABLES
    patients_json,  \* the content of patients.json
    last,           \* the request served last and its outcome
    resp,           \* the body returned for it
    before,         \* patients.json when that request arrived
    fresh,          \* history: id -> <<p>> while its record is as create(p) wrote it
    deleted,        \* history: ids removed by delete and not created since
    handlers,       \* the requests being served at the same time
    log             \* history: the loads and saves of these requests, in order

vars == <<patients_json, last, resp, before, fresh, deleted, handlers, log>>

NoArg == <<>>
Outcome(op, id, arg, status, error) ==
    [op |-> op, id |-> id, arg |-> arg, status |-> status, error |-> error]

Init ==
    /\ patients_json = <<>>
    /\ last = Outcome("start", "", NoArg, 200, "")
    /\ resp = NoArg
    /\ before = <<>>
    /\ fresh = [id \in PatientIds |-> <<>>]
    /\ deleted = {}
    /\ handlers = <<>>
    /\ log = <<>>

\* --------------------------------------------------------- request bodies
ValidPatients ==
    [id : GoodValues("id"), name : GoodValues("name"), city : GoodValues("city"),
     age : GoodValues("age"), gender : GoodValues("gender"),
     height : GoodValues("height"), weight : GoodValues("weight")]

BasePatient(id) ==
    [id |-> id, name |-> "Ann", city |-> "Pune", age |-> 30, gender |-> "male",
     height |-> 200, weight |-> 80]

\* one member of val left out
Missing(val) == {Body(Restrict(val, (DOMAIN val) \ {f}), {}) : f \in DOMAIN val}
\* one member of val sent as null
Nulled(val) == {Body(Restrict(val, (DOMAIN val) \ {f}), {f}) : f \in DOMAIN val}
\* one member of val given a value its constraint rejects
Rejected(val) ==
    UNION {{Body([val EXCEPT ![f] = v], {}) : v \in BadValues(f)} : f \in DOMAIN val}

\* the fields the callers send as null
NullFields == {"name", "age", "weight"}

\* bodies POSTed to /create
CreateBodies ==
    {Body(p, {}) : p \in ValidPatients}
    \cup Missing(BasePatient("P001"))
    \cup {b \in Nulled(BasePatient("P001")) : b.null \subseteq NullFields}
    \cup Rejected(BasePatient("P001"))

\* the fields a two-member update body is drawn from
PairFields == {"name", "weight"}
Subsets2(S) == {T \in SUBSET S : Cardinality(T) = 2}
Singles(S) == {{f} : f \in S}

\* bodies PUT to /edit/{patient_id}: no member; one member, with a good
\* value, null or rejected; two members, both good or a new name with a null
\* or rejected age or weight; a member "id", which PatientUpdate does not
\* declare
UpdateBodies ==
    {Body(Restrict(p, S), {}) :
        p \in ValidPatients, S \in {{}} \cup Singles(StoredFields) \cup Subsets2(PairFields)}
    \cup UNION {Nulled(Restrict(BasePatient("P001"), S)) : S \in Singles(NullFields)}
    \cup UNION {Rejected(Restrict(BasePatient("P001"), S)) : S \in Singles(StoredFields)}
    \cup UNION {Nulled([name |-> "Bob"] @@ Restrict(BasePatient("P001"), S)) \cup
                Rejected([name |-> "Bob"] @@ Restrict(BasePatient("P001"), S)) :
                    S \in Singles({"age", "weight"})}
    \cup {Body([id |-> IdNames[NumIds], name |-> "Bob"], {})}

SortArgs ==
    ({"height", "weight", "bmi"} \X {"asc", "desc"}) \cup {<<"age", "asc">>, <<"bmi", "up">>}

\* ------------------------------------------------------------------- sort
\* variant: the bmi computed from height and weight when sorting
SortKey_Computed(x, sort_by) ==
    IF sort_by = "bmi" THEN bmi(x["height"], x["weight"])
    ELSE IF sort_by \in DOMAIN x THEN x[sort_by] ELSE 0

\* key=lambda x: x.get(sort_by, 0)
SortKey(x, sort_by) == IF sort_by \in DOMAIN x THEN x[sort_by] ELSE 0

\* variant: descending order as the reverse of the ascending result
InsertSorted_Reversed(s, x, sort_by, reverse) ==
    LET front == {i \in DOMAIN s :
                    IF reverse THEN SortKey(s[i], sort_by) > SortKey(x, sort_by)
                    ELSE SortKey(s[i], sort_by) <= SortKey(x, sort_by)}
        n == Cardinality(front)
    IN  SubSeq(s, 1, n) \o <<x>> \o SubSeq(s, n + 1, Len(s))

\* x goes behind every element that must stay in front of it: sorted() is
\* stable, and with reverse=True equal elements keep their original order.
InsertSorted(s, x, sort_by, reverse) ==
    LET front == {i \in DOMAIN s :
                    IF reverse THEN SortKey(s[i], sort_by) >= SortKey(x, sort_by)
                    ELSE SortKey(s[i], sort_by) <= SortKey(x, sort_by)}
        n == Cardinality(front)
    IN  SubSeq(s, 1, n) \o <<x>> \o SubSeq(s, n + 1, Len(s))

RECURSIVE sorted(_, _, _)
sorted(s, sort_by, reverse) ==
    IF s = <<>> THEN <<>>
    ELSE InsertSorted(sorted(SubSeq(s, 1, Len(s) - 1), sort_by, reverse),
                      s[Len(s)], sort_by, reverse)

\* ----------------------------------------------------------------- routes
load_data == patients_json
save_data(data) == patients_json' = data

Reply(op, id, arg, status, error, body) ==
    /\ last' = Outcome(op, id, arg, status, error)
    /\ resp' = body
    /\ before' = patients_json

Fail(op, id, arg, status, error) ==
    /\ Reply(op, id, arg, status, error, [detail |-> error])
    /\ UNCHANGED patients_json

\* GET /view
view ==
    /\ Reply("view", "", NoArg, 200, "", load_data)
    /\ UNCHANGED patients_json

\* variant: the record looked up by position instead of by key
view_patient_first(patient_id) ==
    LET data == load_data
    IN  IF patient_id \in Keys(data)
        THEN /\ Reply("view_patient", patient_id, NoArg, 200, "", data[1].value)
             /\ UNCHANGED patients_json
        ELSE Fail("view_patient", patient_id, NoArg, 404, "NotFound")

\* GET /patient/{patient_id}
view_patient(patient_id) ==
    LET data == load_data
    IN  IF patient_id \in Keys(data)
        THEN /\ Reply("view_patient", patient_id, NoArg, 200, "", GetItem(data, patient_id))
             /\ UNCHANGED patients_json
        ELSE Fail("view_patient", patient_id, NoArg, 404, "NotFound")

\* GET /sort
sort_patients(sort_by, order) ==
    LET arg == [sort_by |-> sort_by, order |-> order]
    IN  IF sort_by \notin {"height", "weight", "bmi"}
        THEN Fail("sort_patients", "", arg, 400, "InvalidArgument")
        ELSE IF order \notin {"asc", "desc"}
        THEN Fail("sort_patients", "", arg, 400, "InvalidArgument")
        ELSE /\ Reply("sort_patients", "", arg, 200, "",
                      sorted(Values(load_data), sort_by, order = "desc"))
             /\ UNCHANGED patients_json

BodyId(b) == IF "id" \in DOMAIN b.val THEN b.val["id"] ELSE ""

\* variant: no check that the id is new
create_patient_overwrite(b) ==
    IF ~PatientValid(b)
    THEN Fail("create_patient", BodyId(b), b, 422, "ValidationError")
    ELSE LET patient == PatientObj(b)
             data == load_data
         IN  /\ save_data(SetItem(data, patient["id"], model_dump(patient, {"id"})))
             /\ Reply("create_patient", patient["id"], b, 201, "",
                      model_dump(patient, {}))

\* POST /create
create_patient(b) ==
    IF ~PatientValid(b)
    THEN Fail("create_patient", BodyId(b), b, 422, "ValidationError")
    ELSE LET patient == PatientObj(b)
             data == load_data
         IN  IF patient["id"] \in Keys(data)
             THEN Fail("create_patient", patient["id"], b, 400, "AlreadyExists")
             ELSE /\ save_data(SetItem(data, patient["id"], model_dump(patient, {"id"})))
                  /\ Reply("create_patient", patient["id"], b, 201, "",
                           model_dump(patient, {}))

\* patient_update.model_dump(exclude_unset=True): the declared fields sent
Updates(b) == Body(Restrict(b.val, StoredFields), b.null \cap StoredFields)

\* variant: {**updates, **existing}
Merged_ExistingWins(existing, updates, patient_id) ==
    Body([k \in {"id"} |-> patient_id] @@ existing @@ updates.val, updates.null)

\* {**existing, **updates} and merged['id'] = patient_id
Merged(existing, updates, patient_id) ==
    Body([k \in {"id"} |-> patient_id] @@ updates.val
            @@ Restrict(existing, (DOMAIN existing) \ updates.null),
         updates.null)

\* variant: the merged dict saved without building a Patient from it
update_patient_unvalidated(patient_id, b) ==
    IF ~PatientUpdateValid(b)
    THEN Fail("update_patient", patient_id, b, 422, "ValidationError")
    ELSE LET data == load_data
         IN  IF patient_id \notin Keys(data)
             THEN Fail("update_patient", patient_id, b, 404, "NotFound")
             ELSE LET existing == GetItem(data, patient_id)
                      merged == Merged(existing, Updates(b), patient_id)
                      kept == Restrict(merged.val, (DOMAIN merged.val) \ {"id"})
                  IN  /\ save_data(SetItem(data, patient_id, kept))
                      /\ Reply("update_patient", patient_id, b, 200, "", merged.val)

\* variant: the merged dict saved after validation, derived entries as they were
update_patient_stale(patient_id, b) ==
    IF ~PatientUpdateValid(b)
    THEN Fail("update_patient", patient_id, b, 422, "ValidationError")
    ELSE LET data == load_data
         IN  IF patient_id \notin Keys(data)
             THEN Fail("update_patient", patient_id, b, 404, "NotFound")
             ELSE LET existing == GetItem(data, patient_id)
                      merged == Merged(existing, Updates(b), patient_id)
                      kept == Restrict(merged.val, (DOMAIN merged.val) \ {"id"})
                  IN  IF ~PatientValid(merged)
                      THEN Fail("update_patient", patient_id, b, 500, "ValidationError")
                      ELSE /\ save_data(SetItem(data, patient_id, kept))
                           /\ Reply("update_patient", patient_id, b, 200, "",
                                    model_dump(PatientObj(merged), {}))

\* PUT /edit/{patient_id}
update_patient(patient_id, b) ==
    IF ~PatientUpdateValid(b)
    THEN Fail("update_patient", patient_id, b, 422, "ValidationError")
    ELSE LET data == load_data
         IN  IF patient_id \notin Keys(data)
             THEN Fail("update_patient", patient_id, b, 404, "NotFound")
             ELSE LET existing == GetItem(data, patient_id)
                      merged == Merged(existing, Updates(b), patient_id)
                  IN  IF ~PatientValid(merged)
                      THEN Fail("update_patient", patient_id, b, 500, "ValidationError")
                      ELSE LET patient_obj == PatientObj(merged)
                           IN  /\ save_data(SetItem(data, patient_id,
                                                      model_dump(patient_obj, {"id"})))
                               /\ Reply("update_patient", patient_id, b, 200, "",
                                        model_dump(patient_obj, {}))

\* variant: no check that the id exists
delete_patient_unchecked(patient_id) ==
    LET data == load_data
    IN  /\ save_data(DelItem(data, patient_id))
        /\ Reply("delete_patient", patient_id, NoArg, 200, "",
                 [message |-> "patient deleted"])

\* variant: the dict without the record never saved
delete_patient_unsaved(patient_id) ==
    LET data == load_data
    IN  IF patient_id \notin Keys(data)
        THEN Fail("delete_patient", patient_id, NoArg, 404, "NotFound")
        ELSE /\ UNCHANGED patients_json
             /\ Reply("delete_patient", patient_id, NoArg, 200, "",
                      [message |-> "patient deleted"])

\* DELETE /delete/{patient_id}
delete_patient(patient_id) ==
    LET data == load_data
    IN  IF patient_id \notin Keys(data)
        THEN Fail("delete_patient", patient_id, NoArg, 404, "NotFound")
        ELSE /\ save_data(DelItem(data, patient_id))
             /\ Reply("delete_patient", patient_id, NoArg, 200, "",
                      [message |-> "patient deleted"])

\* ------------------------------------------------------- specifications
Succeeded(o, op) == o.op = op /\ o.status \in {200, 201}

\* the history variables follow the request just served
Track ==
    IF Succeeded(last', "create_patient")
    THEN /\ fresh' = [fresh EXCEPT ![last'.id] = <<PatientObj(last'.arg)>>]
         /\ deleted' = deleted \ {last'.id}
         /\ UNCHANGED <<handlers, log>>
    ELSE IF Succeeded(last', "update_patient")
    THEN /\ fresh' = [fresh EXCEPT ![last'.id] = <<>>]
         /\ UNCHANGED <<deleted, handlers, log>>
    ELSE IF Succeeded(last', "delete_patient")
    THEN /\ fresh' = [fresh EXCEPT ![last'.id] = <<>>]
         /\ deleted' = deleted \cup {last'.id}
         /\ UNCHANGED <<handlers, log>>
    ELSE UNCHANGED <<fresh, deleted, handlers, log>>

Untracked == UNCHANGED <<fresh, deleted, handlers, log>>

\* The service under every request the callers send.
View == view /\ Untracked
ViewPatient == \E id \in PatientIds : view_patient(id) /\ Untracked
SortPatients == \E a \in SortArgs : sort_patients(a[1], a[2]) /\ Untracked
CreatePatient == \E b \in CreateBodies : create_patient(b) /\ Untracked
UpdatePatient ==
    \E id \in PatientIds, b \in UpdateBodies : update_patient(id, b) /\ Untracked
DeletePatient == \E id \in PatientIds : delete_patient(id) /\ Untracked

Next ==
    \/ View
    \/ ViewPatient
    \/ SortPatients
    \/ CreatePatient
    \/ UpdatePatient
    \/ DeletePatient

Spec == Init /\ [][Next]_vars

\* The life of a record: create, update, delete and get with the history kept.
LifeUpdateBodies ==
    {Body([weight |-> 100], {}), Body([weight |-> 80], {}),
     Body([name |-> "Bob"], {}), Body([age |-> 120], {})}

LifeCreate == \E p \in ValidPatients : create_patient(Body(p, {})) /\ Track
LifeUpdate ==
    \E id \in PatientIds, b \in LifeUpdateBodies : update_patient(id, b) /\ Track
LifeDelete == \E id \in PatientIds : delete_patient(id) /\ Track
LifeGet == \E id \in PatientIds : view_patient(id) /\ Track

NextLife ==
    \/ LifeCreate
    \/ LifeUpdate
    \/ LifeDelete
    \/ LifeGet

SpecLife == Init /\ [][NextLife]_vars

\* /sort over every store of at most MaxRecords records that creates can
\* have written, heights and weights varying.
SortPatientsIn ==
    {[BasePatient("P001") EXCEPT !["height"] = h, !["weight"] = w] :
        h \in {160, 200}, w \in {80, 100}}

SortStores ==
    UNION {{[i \in 1..n |-> [key |-> IdNames[i],
                             value |-> model_dump([ps[i] EXCEPT !["id"] = IdNames[i]],
                                                  {"id"})]] :
                ps \in [1..n -> SortPatientsIn]} : n \in 0..MaxRecords}

InitSort ==
    /\ patients_json \in SortStores
    /\ last = Outcome("start", "", NoArg, 200, "")
    /\ resp = NoArg
    /\ before = patients_json
    /\ fresh = [id \in PatientIds |-> <<>>]
    /\ deleted = {}
    /\ handlers = <<>>
    /\ log = <<>>

NextSort == SortPatients

SpecSort == InitSort /\ [][NextSort]_vars

\* The service under bodies whose name or city is empty, null or missing.
NameFields == {"name", "city"}

NamesCreateBodies ==
    {Body([BasePatient(id) EXCEPT !["name"] = n, !["city"] = c], {}) :
        id \in PatientIds, n \in {"Ann", ""}, c \in {"Pune", ""}}
    \cup {b \in Missing(BasePatient("P001")) : ~(NameFields \subseteq DOMAIN b.val)}
    \cup {b \in Nulled(BasePatient("P001")) : b.null \subseteq NameFields}

NamesUpdateBodies ==
    {Body([k \in {f} |-> ""], {}) : f \in NameFields}
    \cup {Body(Restrict(BasePatient("P001"), {}), {f}) : f \in NameFields}

NamesCreate == \E b \in NamesCreateBodies : create_patient(b) /\ Untracked
NamesUpdate ==
    \E id \in PatientIds, b \in NamesUpdateBodies : update_patient(id, b) /\ Untracked

NextNames ==
    \/ NamesCreate
    \/ NamesUpdate
    \/ DeletePatient

SpecNames == Init /\ [][NextNames]_vars

\* /sort over a patients.json that was not written by the service alone: a
\* value is as create wrote it, or holds the six fields only, or holds the
\* bmi and verdict of another weight.
SeedValues ==
    UNION {LET p == [BasePatient("P001") EXCEPT !["weight"] = w]
               q == [BasePatient("P001") EXCEPT !["weight"] = 180 - w]
           IN  {model_dump(p, {"id"}),
                Restrict(p, StoredFields),
                Restrict(p, StoredFields) @@ Restrict(model_dump(q, {"id"}), DerivedFields)}
           : w \in {80, 100}}

SeedStores ==
    UNION {{[i \in 1..n |-> [key |-> IdNames[i], value |-> vs[i]]] :
                vs \in [1..n -> SeedValues]} : n \in 0..MaxRecords}

InitSeed ==
    /\ patients_json \in SeedStores
    /\ last = Outcome("start", "", NoArg, 200, "")
    /\ resp = NoArg
    /\ before = patients_json
    /\ fresh = [id \in PatientIds |-> <<>>]
    /\ deleted = {}
    /\ handlers = <<>>
    /\ log = <<>>

NextSeed == SortPatients

SpecSeed == InitSeed /\ [][NextSeed]_vars

\* Two mutating requests served at the same time: each handler loads the
\* file, works on the dict it loaded and dumps that dict back; nothing orders
\* the loads and saves of different handlers.
Handlers == {1, 2}

RaceRequests ==
    UNION {{[op |-> "create_patient", id |-> id, body |-> Body(BasePatient(id), {})],
            [op |-> "update_patient", id |-> id, body |-> Body([weight |-> 100], {})],
            [op |-> "delete_patient", id |-> id, body |-> Body(<<>>, {})]}
           : id \in PatientIds}

\* the files the handlers find: the records of some ids, as create wrote them
RaceStores ==
    {SelectSeq([i \in 1..NumIds |->
                    [key |-> IdNames[i],
                     value |-> model_dump(BasePatient(IdNames[i]), {"id"})]],
               LAMBDA e : e.key \in S) : S \in SUBSET PatientIds}

InitRace ==
    /\ patients_json \in RaceStores
    /\ last = Outcome("start", "", NoArg, 200, "")
    /\ resp = NoArg
    /\ before = patients_json
    /\ fresh = [id \in PatientIds |-> <<>>]
    /\ deleted = {}
    /\ handlers \in [Handlers -> {[req |-> r, pc |-> "start", data |-> <<>>, status |-> 0] :
                                    r \in RaceRequests}]
    /\ log = <<>>

\* data = load_data()
Load(i) ==
    /\ handlers[i].pc = "start"
    /\ handlers' = [handlers EXCEPT ![i].pc = "loaded", ![i].data = load_data]
    /\ log' = Append(log, [ev |-> "load", h |-> i])
    /\ UNCHANGED <<patients_json, last, resp, before, fresh, deleted>>

\* variant: the handler works on the file as it is when it saves
Loaded_AtSave(i) == patients_json

\* the dict handler i works on
Loaded(i) == handlers[i].data

\* what the rest of a handler does with the dict it loaded: the status it
\* answers and, when it saves, the dict it dumps
Handle(r, data) ==
    CASE r.op = "create_patient" ->
            IF r.id \in Keys(data)
            THEN [status |-> 400, saves |-> FALSE, data |-> data]
            ELSE [status |-> 201, saves |-> TRUE,
                  data |-> SetItem(data, r.id, model_dump(PatientObj(r.body), {"id"}))]
      [] r.op = "update_patient" ->
            IF r.id \notin Keys(data)
            THEN [status |-> 404, saves |-> FALSE, data |-> data]
            ELSE LET merged == Merged(GetItem(data, r.id), Updates(r.body), r.id)
                 IN  IF ~PatientValid(merged)
                     THEN [status |-> 500, saves |-> FALSE, data |-> data]
                     ELSE [status |-> 200, saves |-> TRUE,
                           data |-> SetItem(data, r.id,
                                            model_dump(PatientObj(merged), {"id"}))]
      [] r.op = "delete_patient" ->
            IF r.id \notin Keys(data)
            THEN [status |-> 404, saves |-> FALSE, data |-> data]
            ELSE [status |-> 200, saves |-> TRUE, data |-> DelItem(data, r.id)]

\* the checks, the change and save_data(data) of handler i
Finish(i) ==
    /\ handlers[i].pc = "loaded"
    /\ LET out == Handle(handlers[i].req, Loaded(i))
       IN  /\ handlers' = [handlers EXCEPT ![i].pc = "done", ![i].status = out.status]
           /\ IF out.saves
              THEN /\ save_data(out.data)
                   /\ log' = Append(log, [ev |-> "save", h |-> i])
              ELSE /\ UNCHANGED patients_json
                   /\ log' = Append(log, [ev |-> "fail", h |-> i])
    /\ UNCHANGED <<last, resp, before, fresh, deleted>>

HandlerLoads == \E i \in Handlers : Load(i)
HandlerFinishes == \E i \in Handlers : Finish(i)

NextRace ==
    \/ HandlerLoads
    \/ HandlerFinishes

SpecRace == InitRace /\ [][NextRace]_vars

\* The computed fields of a Patient of every height and weight drawn.
VerdictHeights == {156, 174, 199, 200}

PatientDerived ==
    \E h \in VerdictHeights, w \in 1..MaxWeight :
        LET b == Body([BasePatient("P001") EXCEPT !["height"] = h, !["weight"] = w], {})
        IN  /\ PatientValid(b)
            /\ last' = Outcome("Patient", "P001", b, 200, "")
            /\ resp' = model_dump(PatientObj(b), {})
            /\ UNCHANGED <<patients_json, before>>
            /\ Untracked

NextVerdict == PatientDerived

SpecVerdict == Init /\ [][NextVerdict]_vars

TypeOK ==
    /\ Len(patients_json) = Cardinality(Keys(patients_json))
    /\ deleted \subseteq PatientIds

\* ----------------------------------------------------------------- claims
\* The constraints of the data model on a stored field.
Satisfies(f, v) ==
    CASE f = "age"    -> 0 < v /\ v < 120
      [] f = "gender" -> v \in {"male", "female", "others"}
      [] f = "height" -> v > 0
      [] f = "weight" -> v > 0
      [] OTHER        -> TRUE

\* the body names a stored field as null or with a value out of its constraint
Violates(b) ==
    \E f \in StoredFields :
        \/ f \in b.null
        \/ f \in DOMAIN b.val /\ ~Satisfies(f, b.val[f])

KeyOrder(data) == [i \in DOMAIN data |-> data[i].key]

\* C1: whatever requests were served, successful or failed, every stored
\* value holds all six stored fields with 0 < age < 120, gender one of male,
\* female, others, height > 0 and weight > 0.
C1_StoreValid ==
    \A i \in DOMAIN patients_json :
        LET v == patients_json[i].value
        IN  /\ StoredFields \subseteq DOMAIN v
            /\ \A f \in StoredFields : Satisfies(f, v[f])

\* a full store after an update that the validation of the merged record refused
C1_Witness ==
    /\ last.op = "update_patient"
    /\ last.status = 500
    /\ Len(patients_json) = NumIds

Written == Succeeded(last, "create_patient") \/ Succeeded(last, "update_patient")

C3_PartialUpdate ==
    Succeeded(last, "update_patient") =>
        LET old == GetItem(before, last.id)
            new == GetItem(patients_json, last.id)
            sent == last.arg.val
        IN  /\ KeyOrder(patients_json) = KeyOrder(before)
            /\ \A f \in StoredFields :
                  new[f] = IF f \in DOMAIN sent THEN sent[f] ELSE old[f]

\* an update of the weight alone to another value
C3_Witness ==
    /\ Succeeded(last, "update_patient")
    /\ DOMAIN last.arg.val = {"weight"}
    /\ GetItem(patients_json, last.id)["weight"] # GetItem(before, last.id)["weight"]

\* C4: an update of an existing id whose body makes the merged record violate
\* a constraint fails with ValidationError and patients.json is as before.
C4_InvalidUpdate ==
    (last.op = "update_patient" /\ last.id \in Keys(before) /\ Violates(last.arg)) =>
        /\ last.error = "ValidationError"
        /\ patients_json = before

\* age 120 sent together with a new name: neither is written
C4_Witness ==
    /\ last.op = "update_patient"
    /\ last.id \in Keys(before)
    /\ DOMAIN last.arg.val = {"name", "age"}
    /\ last.arg.val["age"] = 120
    /\ last.arg.val["name"] # GetItem(before, last.id)["name"]
    /\ last.error = "ValidationError"

\* C5: a create whose id is already a key leaves patients.json as it was, and
\* with a valid patient as body it fails with AlreadyExists.
C5_DuplicateCreate ==
    (last.op = "create_patient" /\ BodyId(last.arg) \in Keys(before)) =>
        /\ patients_json = before
        /\ (last.arg.null = {} /\ last.arg.val \in ValidPatients) =>
              (last.status = 400 /\ last.error = "AlreadyExists")

\* a refused create whose body differs from the record under that id
C5_Witness ==
    /\ last.op = "create_patient"
    /\ last.error = "AlreadyExists"
    /\ GetItem(before, last.id)["weight"] # last.arg.val["weight"]

\* C8: a delete of an id that is no key answers NotFound and patients.json is
\* as before.
C8_DeleteAbsent ==
    (last.op = "delete_patient" /\ last.id \notin Keys(before)) =>
        /\ last.status = 404
        /\ last.error = "NotFound"
        /\ patients_json = before

C8_Witness ==
    /\ last.op = "delete_patient"
    /\ last.id \notin Keys(before)
    /\ before # <<>>

C7_DeletedStaysGone ==
    /\ deleted \cap Keys(patients_json) = {}
    /\ (last.op = "view_patient" /\ last.id \in deleted) =>
          (last.status = 404 /\ last.error = "NotFound")

\* a get of a deleted id while another record is stored
C7_Witness ==
    /\ last.op = "view_patient"
    /\ last.id \in deleted
    /\ last.status = 404
    /\ patients_json # <<>>

Perms(n) == {f \in [1..n -> 1..n] : \A i, j \in 1..n : f[i] = f[j] => i = j}

\* the field /sort orders by, the bmi being that of the height and weight
KeyOf(r, sort_by) ==
    IF sort_by = "bmi" THEN bmi(r["height"], r["weight"]) ELSE r[sort_by]

\* C9: /sort answers a permutation of the stored records that is
\* non-decreasing in the named field for asc and non-increasing for desc, and
\* records with equal keys are in the order the store lists them, for both.
C9_SortStable ==
    Succeeded(last, "sort_patients") =>
        LET vals == Values(before)
            n == Len(vals)
            by == last.arg.sort_by
        IN  /\ Len(resp) = n
            /\ \E pi \in Perms(n) :
                  /\ \A i \in 1..n : resp[i] = vals[pi[i]]
                  /\ \A i, j \in 1..n : i < j =>
                        /\ IF last.arg.order = "desc"
                           THEN KeyOf(resp[i], by) >= KeyOf(resp[j], by)
                           ELSE KeyOf(resp[i], by) <= KeyOf(resp[j], by)
                        /\ KeyOf(resp[i], by) = KeyOf(resp[j], by) => pi[i] < pi[j]

\* a descending sort by height that reorders the store and leaves two
\* different records of equal height next to each other
C9_Witness ==
    /\ Succeeded(last, "sort_patients")
    /\ last.arg.order = "desc"
    /\ last.arg.sort_by = "height"
    /\ Len(resp) >= 3
    /\ resp # Values(before)
    /\ \E i \in 1..(Len(resp) - 1) :
          /\ resp[i]["height"] = resp[i + 1]["height"]
          /\ resp[i] # resp[i + 1]

\* C12: the value written by a successful create or update holds no id
\* entry; the id is the key only.
C12_NoIdInValue ==
    Written =>
        /\ last.id \in Keys(patients_json)
        /\ "id" \notin DOMAIN GetItem(patients_json, last.id)

\* an update whose body carries a member "id"
C12_Witness ==
    /\ Succeeded(last, "update_patient")
    /\ "id" \in DOMAIN last.arg.val
    /\ "id" \notin DOMAIN GetItem(patients_json, last.id)

\* the body passes the constraints PatientUpdate puts on its fields
PassesUpdate(b) ==
    /\ \A f \in (DOMAIN b.val) \cap {"age", "height", "weight"} : b.val[f] > 0
    /\ "gender" \in DOMAIN b.val => b.val["gender"] \in {"male", "female", "others"}

\* C13: a successful create adds exactly its id to the keys, a successful
\* delete removes exactly its id, every other request leaves the keys as they
\* were, and an update of an absent id fails with NotFound.
C13_KeySet ==
    LET K0 == Keys(before)
        K1 == Keys(patients_json)
    IN  /\ Succeeded(last, "create_patient") =>
              (last.id \notin K0 /\ K1 = K0 \cup {last.id})
        /\ Succeeded(last, "delete_patient") =>
              (last.id \in K0 /\ K1 = K0 \ {last.id})
        /\ ~(Succeeded(last, "create_patient") \/ Succeeded(last, "delete_patient")) =>
              K1 = K0
        /\ (last.op = "update_patient" /\ last.id \notin K0 /\ PassesUpdate(last.arg)) =>
              (last.status = 404 /\ last.error = "NotFound")

\* a delete that leaves another record in the store
C13_Witness ==
    /\ Succeeded(last, "delete_patient")
    /\ Keys(before) = PatientIds
    /\ Keys(patients_json) = PatientIds \ {last.id}

Mutated ==
    \/ Succeeded(last, "create_patient")
    \/ Succeeded(last, "update_patient")
    \/ Succeeded(last, "delete_patient")

\* C17: a successful create, update or delete of an id leaves the value
\* under every other id as it was.
C17_OthersUntouched ==
    Mutated =>
        /\ \A i \in DOMAIN before :
              before[i].key # last.id =>
                  /\ before[i].key \in Keys(patients_json)
                  /\ GetItem(patients_json, before[i].key) = before[i].value
        /\ Keys(patients_json) \ {last.id} \subseteq Keys(before)

\* an update that changes a record behind another one
C17_Witness ==
    /\ Succeeded(last, "update_patient")
    /\ Len(before) >= 2
    /\ before[1].key # last.id
    /\ patients_json # before

\* C18: the bmi and verdict in a value that create or update writes are
\* those of the height and weight in that same value.
C18_NoStaleDerived ==
    Written =>
        LET v == GetItem(patients_json, last.id)
        IN  /\ "bmi" \in DOMAIN v => v["bmi"] = bmi(v["height"], v["weight"])
            /\ "verdict" \in DOMAIN v =>
                  v["verdict"] = verdict(bmi(v["height"], v["weight"]))

\* an update of the weight alone, the stored bmi following it
C18_Witness ==
    /\ Succeeded(last, "update_patient")
    /\ DOMAIN last.arg.val = {"weight"}
    /\ GetItem(patients_json, last.id)["bmi"] # GetItem(before, last.id)["bmi"]
    /\ GetItem(patients_json, last.id)["verdict"] # GetItem(before, last.id)["verdict"]

VerdictNames == {"Underweight", "Normal", "Overweight", "Obese"}

\* C14: the verdict of a valid patient is one of the four classes, decided by
\* the bmi rounded to hundredths: below 18.5 Underweight, from 18.5 below 25
\* Normal, from 25 below 30 Overweight, from 30 Obese.
C14_VerdictTable ==
    last.op = "Patient" =>
        LET h == last.arg.val["height"]
            w == last.arg.val["weight"]
            b == resp["bmi"]
            v == resp["verdict"]
        IN  /\ 2 * b * h * h - 2 * w * 1000000 <= h * h
            /\ 2 * w * 1000000 - 2 * b * h * h <= h * h
            /\ v \in VerdictNames
            /\ v = "Underweight" <=> b < 1850
            /\ v = "Normal" <=> (1850 <= b /\ b < 2500)
            /\ v = "Overweight" <=> (2500 <= b /\ b < 3000)
            /\ v = "Obese" <=> b >= 3000

\* a bmi of exactly 30.00 after rounding, the quotient itself below 30
C14_Witness ==
    /\ last.op = "Patient"
    /\ resp["bmi"] = 3000
    /\ resp["verdict"] = "Obese"
    /\ last.arg.val["weight"] * 1000000
          < 3000 * last.arg.val["height"] * last.arg.val["height"]

\* the body gives name or city as the empty string
SendsEmpty(b) == \E f \in NameFields \cap DOMAIN b.val : b.val[f] = ""
\* the body gives name or city as null
SendsNull(b) == b.null \cap NameFields # {}

\* C15 as stated: a create or an update whose body gives name or city as the
\* empty string fails with ValidationError and stores nothing, and no stored
\* record has an empty name or city.
C15_Original ==
    /\ (last.op \in {"create_patient", "update_patient"} /\ SendsEmpty(last.arg)) =>
          (last.error = "ValidationError" /\ patients_json = before)
    /\ \A i \in DOMAIN patients_json :
          /\ patients_json[i].value["name"] # ""
          /\ patients_json[i].value["city"] # ""

\* C15 amended: a create whose name or city is missing or null, and an update
\* of an existing id that gives name or city as null, fails with
\* ValidationError and stores nothing, so every stored record has a name and
\* a city; the empty string passes and is stored as given.
C15_NamesRequired ==
    /\ (last.op = "create_patient"
            /\ (SendsNull(last.arg) \/ ~(NameFields \subseteq DOMAIN last.arg.val))) =>
          (last.error = "ValidationError" /\ patients_json = before)
    /\ (last.op = "update_patient" /\ SendsNull(last.arg) /\ last.id \in Keys(before)) =>
          (last.error = "ValidationError" /\ patients_json = before)
    /\ \A i \in DOMAIN patients_json : NameFields \subseteq DOMAIN patients_json[i].value
    /\ (last.op = "update_patient" /\ SendsEmpty(last.arg) /\ last.id \in Keys(before)) =>
          /\ last.status = 200
          /\ \A f \in NameFields \cap DOMAIN last.arg.val :
                GetItem(patients_json, last.id)[f] = ""
    /\ (last.op = "create_patient" /\ SendsEmpty(last.arg)
            /\ NameFields \subseteq DOMAIN last.arg.val /\ last.id \notin Keys(before)) =>
          /\ last.status = 201
          /\ \A f \in NameFields :
                GetItem(patients_json, last.id)[f] = last.arg.val[f]

\* a record created with an empty name and an empty city
C15_Witness ==
    /\ Succeeded(last, "create_patient")
    /\ last.arg.val["name"] = ""
    /\ last.arg.val["city"] = ""
    /\ GetItem(patients_json, last.id)["name"] = ""
    /\ GetItem(patients_json, last.id)["city"] = ""

\* the bmi entry a stored value holds, 0 when it holds none
StoredBmi(r) == IF "bmi" \in DOMAIN r THEN r["bmi"] ELSE 0

Overlap == Len(log) >= 2 /\ log[1].ev = "load" /\ log[2].ev = "load"
AllDone == \A i \in Handlers : handlers[i].pc = "done"
BothSucceeded == \A i \in Handlers : handlers[i].status \in {200, 201}
FirstSaver == handlers[log[3].h]
LastSaver == handlers[log[4].h]

\* C11: when two mutating requests both load the file before either saves,
\* nothing stops either of them (each answers as it would alone on the file
\* it loaded), and when both report success on different ids the file shows
\* none of the change of the one that saved first.
C11_LostUpdate ==
    (Overlap /\ AllDone) =>
        /\ \A i \in Handlers :
              LET r == handlers[i].req
              IN  handlers[i].status \in {200, 201} <=>
                     IF r.op = "create_patient" THEN r.id \notin Keys(before)
                     ELSE r.id \in Keys(before)
        /\ (BothSucceeded /\ FirstSaver.req.id # LastSaver.req.id) =>
              LET r == FirstSaver.req
              IN  IF r.op = "create_patient"
                  THEN r.id \notin Keys(patients_json)
                  ELSE /\ r.id \in Keys(patients_json)
                       /\ GetItem(patients_json, r.id) = GetItem(before, r.id)

\* a create of one id and an update of another both answered success, and
\* the created record is not in the file
C11_Witness ==
    /\ Overlap
    /\ AllDone
    /\ BothSucceeded
    /\ FirstSaver.req.op = "create_patient"
    /\ LastSaver.req.op = "update_patient"
    /\ FirstSaver.req.id # LastSaver.req.id
    /\ FirstSaver.req.id \notin Keys(patients_json)
    /\ GetItem(patients_json, LastSaver.req.id) # GetItem(before, LastSaver.req.id)

=============================================================================
